---- MODULE Spec2Model ----
(***************************************************************************)
(* Model of pdf_creator.py (class PDFApp): the output-name sanitizer, the  *)
(* document builder, the directory loader and the Streamlit render script. *)
(*                                                                         *)
(* A Python str is a sequence of one-character strings.  A character that  *)
(* has no printable ASCII form is written by its code point ("U+0009" is   *)
(* TAB, "U+00E9" is LATIN SMALL LETTER E WITH ACUTE).  An optional value   *)
(* (Python None or a value) is a sequence of length 0 or 1.                *)
(***************************************************************************)
EXTENDS Naturals, Sequences, FiniteSets

VARIABLES
  \* ---- _sanitize_filename called on its own
  name,            \* the argument
  safe_name,       \* None, or <<the returned file name>>
  \* ---- images_to_pdf called on its own, and inside render
  arg_images,      \* the argument
  enc_call,        \* None, or <<the call made to Image.save>>
  pdf_result,      \* None, or <<what images_to_pdf returned or raised>>
  \* ---- the filesystem seen by load_images_from_dir
  dir_path,        \* the path given
  exists,          \* os.path.isdir(dir_path)
  listing,         \* os.listdir(dir_path), in the order the filesystem gives
  load_result,     \* None, or <<what load_images_from_dir returned or raised>>
  opened,          \* the paths handed to Image.open, in call order
  \* ---- one run of render
  mode,            \* st.radio
  uploaded_files,  \* st.file_uploader
  pdf_name,        \* st.text_input("PDF name ...")
  click,           \* which button triggered this run: "none", "convert", "clear"
  images,          \* local images at the end of the run
  error,           \* local error at the end of the run (None or <<str(e)>>)
  shown,           \* what the convert branch displayed, in order
  rerun,           \* st.rerun() was called: the script runs again
  prev_outcome     \* how the previous run ended

sanVars   == <<name, safe_name>>
pdfVars   == <<arg_images, enc_call, pdf_result>>
dirVars   == <<dir_path, exists, listing, load_result, opened>>
shellVars == <<mode, uploaded_files, pdf_name, click, images, error, shown,
               rerun, prev_outcome>>
vars      == <<sanVars, pdfVars, dirVars, shellVars>>

None == <<>>
Some(v) == <<v>>

(***************************************************************************)
(* Bounds                                                                  *)
(***************************************************************************)
MaxNameLen == 3     \* longest enumerated pdf name
MaxImages  == 3     \* longest enumerated image list / upload list
MaxEntries == 3     \* most entries in the enumerated directory
MaxUploads == 2     \* most streams uploaded in one run of render
MaxShellEntries == 2  \* most entries in a directory given to render

(***************************************************************************)
(* Characters                                                              *)
(***************************************************************************)
LowerCase == <<"a","b","c","d","e","f","g","h","i","j","k","l","m",
               "n","o","p","q","r","s","t","u","v","w","x","y","z">>
UpperCase == <<"A","B","C","D","E","F","G","H","I","J","K","L","M",
               "N","O","P","Q","R","S","T","U","V","W","X","Y","Z">>
Digits    == <<"0","1","2","3","4","5","6","7","8","9">>

\* The characters used, in ascending code point order.
CodeOrder == <<"U+0009", " ", "!", "-", ".", "/">> \o Digits \o UpperCase
             \o <<"_">> \o LowerCase \o <<"U+00E9">>

Ord(c) == CHOOSE i \in 1..Len(CodeOrder) : CodeOrder[i] = c

Range(s) == {s[i] : i \in 1..Len(s)}

\* str.isspace of one character
IsSpace(c) == c \in {" ", "U+0009"}

\* Characters outside ASCII for which str.isalnum is true.
UnicodeAlnum == {"U+00E9"}

\* \w of a str pattern (no re.ASCII flag): Unicode word characters
IsWord(c) == c \in Range(LowerCase) \cup Range(UpperCase) \cup Range(Digits)
                   \cup {"_"} \cup UnicodeAlnum

\* str.lower of one character
LowerChar(c) == IF c \in Range(UpperCase)
                THEN LowerCase[CHOOSE i \in 1..Len(UpperCase) : UpperCase[i] = c]
                ELSE c

\* str.lower
Lower(s) == [i \in 1..Len(s) |-> LowerChar(s[i])]

\* str.endswith(suffix)
EndsWith(s, suffix) ==
  /\ Len(suffix) <= Len(s)
  /\ SubSeq(s, Len(s) - Len(suffix) + 1, Len(s)) = suffix

\* s < t for str: lexicographic by code point
RECURSIVE StrLess(_, _)
StrLess(s, t) ==
  IF t = <<>> THEN FALSE
  ELSE IF s = <<>> THEN TRUE
  ELSE IF Head(s) # Head(t) THEN Ord(Head(s)) < Ord(Head(t))
  ELSE StrLess(Tail(s), Tail(t))

(***************************************************************************)
(* _sanitize_filename                                                      *)
(***************************************************************************)
Combined == <<"c","o","m","b","i","n","e","d">>
DotPdf   == <<".","p","d","f">>

\* name or "combined"
OrCombined(s) == IF s = <<>> THEN Combined ELSE s

RECURSIVE LStrip(_)
LStrip(s) == IF s # <<>> /\ IsSpace(Head(s)) THEN LStrip(Tail(s)) ELSE s

RECURSIVE RStrip(_)
RStrip(s) == IF s # <<>> /\ IsSpace(s[Len(s)])
             THEN RStrip(SubSeq(s, 1, Len(s) - 1)) ELSE s

\* str.strip()
Strip(s) == RStrip(LStrip(s))

\* the character class [\w\-. ]
KeptChar(c) == IsWord(c) \/ c \in {"-", ".", " "}

\* re.sub(r"[^\w\-. ]+", "", s): every run of other characters is deleted
ReSubUnsafe(s) == SelectSeq(s, KeptChar)

\* s.replace(" ", "_")
ReplaceSpaces(s) == [i \in 1..Len(s) |-> IF s[i] = " " THEN "_" ELSE s[i]]

\* faulty variant: the final "or 'combined'" is missing
SanitizeNoFallback(s) ==
  ReplaceSpaces(ReSubUnsafe(Strip(OrCombined(s)))) \o DotPdf

\* faulty variant: .strip() is missing
SanitizeNoStrip(s) ==
  OrCombined(ReplaceSpaces(ReSubUnsafe(OrCombined(s)))) \o DotPdf

_sanitize_filename(s) ==
  LET n1 == Strip(OrCombined(s))
      n2 == ReSubUnsafe(n1)
      n3 == ReplaceSpaces(n2)
  IN  OrCombined(n3) \o DotPdf

\* Characters the enumerated names are built from.
NameAlphabet == {"a", "1", "_", "-", ".", " ", "U+0009", "!", "U+00E9"}

SeqsUpTo(S, n) == UNION {[1..k -> S] : k \in 0..n}

MyReport == <<"M","y"," ","R","e","p","o","r","t","!","!">>

NameInputs == SeqsUpTo(NameAlphabet, MaxNameLen)
              \cup {MyReport, Combined, <<" "," "," ">>}

(***************************************************************************)
(* Exceptions and PIL images                                               *)
(***************************************************************************)
\* An exception: its type, and its message as literal text followed by the
\* value interpolated into it (a path; <<>> when there is none).
Exc(type, text, arg) == [type |-> type, text |-> text, arg |-> arg]

\* str(e)
StrOf(e) == [text |-> e.text, arg |-> e.arg]

Modes == {"RGB", "L", "P"}

\* What a byte source holds: a complete image of some mode, an image whose
\* header parses and whose pixel data is cut short, or no image at all.
Contents == {"RGB", "L", "truncated", "bad"}

\* A PIL image: where it was read from, its mode, whether its pixel data
\* can be loaded, and whether it is a copy made by convert().
Img(src, m, loadable, converted) ==
  [src |-> src, mode |-> m, loadable |-> loadable, converted |-> converted]

\* Image.open(src) on a source holding `content`: reads the header only.
ImageOpen(src, content) ==
  IF content = "bad"
  THEN [raised |-> Some(Exc("UnidentifiedImageError",
                            "cannot identify image file ", src)),
        value |-> None]
  ELSE [raised |-> None,
        value |-> Some(Img(src, IF content = "truncated" THEN "RGB" ELSE content,
                           content # "truncated", FALSE))]

\* img.convert("RGB"): loads the pixel data and returns a new image.
Convert(img) == Img(img.src, "RGB", TRUE, TRUE)

TruncatedError == Exc("OSError", "image file is truncated", <<>>)

(***************************************************************************)
(* images_to_pdf                                                           *)
(***************************************************************************)
NoImagesError ==
  Exc("ValueError", "No images provided for PDF conversion.", <<>>)

\* img if img.mode == "RGB" else img.convert("RGB")
RgbImage(img) == IF img.mode = "RGB" THEN img ELSE Convert(img)

\* faulty variant: append_images=rgb_images (the first page is written twice)
SavePagesWhole(rgb_images) ==
  [first |-> rgb_images[1], append_images |-> rgb_images]

\* rgb_images[0].save(out, format="PDF", save_all=True,
\*                    append_images=rgb_images[1:])
SaveCall(rgb_images) ==
  [first |-> rgb_images[1], append_images |-> Tail(rgb_images)]

\* The pages the encoder writes for a save call, in order.
PagesOf(call) == <<call.first>> \o call.append_images

\* faulty variant: the emptiness check is missing and an empty document is written
ImagesToPdfNoCheck(imgs) ==
  [raised |-> None, enc |-> None, out |-> Some([pages |-> imgs, pos |-> 0])]

\* Returns what was raised, the call made to the encoder, and the buffer
\* returned (its pages and its read position).
images_to_pdf(imgs) ==
  IF imgs = <<>>
  THEN [raised |-> Some(NoImagesError), enc |-> None, out |-> None]
  ELSE IF \E i \in 1..Len(imgs) : imgs[i].mode # "RGB" /\ ~imgs[i].loadable
  THEN \* convert() raises inside the list comprehension
       [raised |-> Some(TruncatedError), enc |-> None, out |-> None]
  ELSE LET rgb_images == [i \in 1..Len(imgs) |-> RgbImage(imgs[i])]
           call == SaveCall(rgb_images)
           pages == PagesOf(call)
       IN  IF \E i \in 1..Len(pages) : ~pages[i].loadable
           THEN [raised |-> Some(TruncatedError), enc |-> Some(call),
                 out |-> None]
           ELSE \* written to the end, then out.seek(0)
                [raised |-> None, enc |-> Some(call),
                 out |-> Some([pages |-> pages, pos |-> 0])]

(***************************************************************************)
(* load_images_from_dir                                                    *)
(***************************************************************************)
\* The files a directory may hold, each with what it holds.
FilePool ==
  { [fname |-> <<"b",".","p","n","g">>,     content |-> "RGB"],
    [fname |-> <<"a",".","j","p","g">>,     content |-> "RGB"],
    [fname |-> <<"c",".","t","x","t">>,     content |-> "bad"],
    [fname |-> <<"B",".","P","N","G">>,     content |-> "L"],
    [fname |-> <<"d",".","J","P","e","G">>, content |-> "truncated"],
    [fname |-> <<"e",".","j","p","e","g">>, content |-> "bad"],
    [fname |-> <<"j","p","g">>,             content |-> "RGB"] }

FileNames == {f.fname : f \in FilePool}

ContentOf(fname) == (CHOOSE f \in FilePool : f.fname = fname).content

supported_ext == {<<".","j","p","g">>, <<".","j","p","e","g">>,
                  <<".","p","n","g">>}

\* f.lower().endswith(supported_ext)
HasSupportedExt(f) == \E e \in supported_ext : EndsWith(Lower(f), e)

\* os.path.join(a, b) for a relative b
PathJoin(a, b) ==
  IF a = <<>> \/ a[Len(a)] = "/" THEN a \o b ELSE a \o <<"/">> \o b

RECURSIVE InsertSorted(_, _)
InsertSorted(x, s) ==
  IF s = <<>> THEN <<x>>
  ELSE IF StrLess(x, Head(s)) THEN <<x>> \o s
  ELSE <<Head(s)>> \o InsertSorted(x, Tail(s))

RECURSIVE SortedRec(_)
SortedRec(s) == IF s = <<>> THEN <<>>
                ELSE InsertSorted(s[Len(s)], SortedRec(SubSeq(s, 1, Len(s) - 1)))

\* faulty variant: the list is left in listing order
SortedIdentity(s) == s

\* sorted(s) for a list of str
Sorted(s) == SortedRec(s)

\* [Image.open(f) for f in srcs]: stops at the first source that fails.
\* holds[i] is what srcs[i] holds.
RECURSIVE OpenFrom(_, _, _, _)
OpenFrom(srcs, holds, i, acc) ==
  IF i > Len(srcs)
  THEN [raised |-> None, value |-> Some(acc), opened |-> srcs]
  ELSE LET r == ImageOpen(srcs[i], holds[i])
       IN  IF r.raised # None
           THEN [raised |-> r.raised, value |-> None,
                 opened |-> SubSeq(srcs, 1, i)]
           ELSE OpenFrom(srcs, holds, i + 1, Append(acc, r.value[1]))

OpenAll(srcs, holds) == OpenFrom(srcs, holds, 1, <<>>)

InvalidDirError(p) == Exc("ValueError", "Invalid directory: ", p)
NoSupportedError(p) == Exc("ValueError", "No supported images found in ", p)

\* faulty variant: the "if not files" check is missing
LoadNoEmptyCheck(p, isdir, entries) ==
  IF ~isdir
  THEN [raised |-> Some(InvalidDirError(p)), value |-> None, opened |-> <<>>]
  ELSE [raised |-> None, value |-> Some(<<>>), opened |-> <<>>]

\* p: the path; isdir: os.path.isdir(p); entries: os.listdir(p)
load_images_from_dir(p, isdir, entries) ==
  IF ~isdir
  THEN [raised |-> Some(InvalidDirError(p)), value |-> None, opened |-> <<>>]
  ELSE LET matching == SelectSeq(entries, HasSupportedExt)
           joined == [i \in 1..Len(matching) |-> PathJoin(p, matching[i])]
           files == Sorted(joined)
           holds == [i \in 1..Len(files) |->
                       ContentOf(CHOOSE f \in Range(entries) :
                                   PathJoin(p, f) = files[i])]
       IN  IF files = <<>>
           THEN [raised |-> Some(NoSupportedError(p)), value |-> None,
                 opened |-> <<>>]
           ELSE OpenAll(files, holds)

(***************************************************************************)
(* render                                                                  *)
(***************************************************************************)
UploadMode == "Upload files"
DirMode    == "Directory path"

Widget(kind, msg, data, file_name) ==
  [kind |-> kind, msg |-> msg, data |-> data, file_name |-> file_name]

Text(t) == [text |-> t, arg |-> <<>>]

NoImagesWarning ==
  Text("No images found. Upload files or specify a valid directory.")

\* faulty variant: images and error keep the values of the previous run
RunStartStale(prev_images, prev_error) ==
  [images |-> prev_images, error |-> prev_error]

\* images = []; error = None
RunStart(prev_images, prev_error) == [images |-> <<>>, error |-> None]

\* The name of the i-th uploaded stream.
UploadName(i) == <<"u", Digits[i + 1]>>

\* faulty variant: an uploaded stream that fails to open is skipped
LoadStepSkipBad(start, m, files, p, isdir, entries) ==
  IF m = UploadMode
  THEN LET good == {i \in 1..Len(files) : files[i] # "bad"}
           Nth(k) == CHOOSE i \in good : Cardinality({j \in good : j < i}) = k - 1
       IN  [images |-> [k \in 1..Cardinality(good) |->
                          ImageOpen(UploadName(Nth(k)), files[Nth(k)]).value[1]],
            error |-> start.error, load |-> None,
            opened |-> [i \in 1..Len(files) |-> UploadName(i)]]
  ELSE IF p = <<>>
       THEN [images |-> start.images, error |-> start.error,
             load |-> None, opened |-> <<>>]
       ELSE LET r == load_images_from_dir(p, isdir, entries)
            IN  IF r.raised # None
                THEN [images |-> start.images,
                      error |-> Some(StrOf(r.raised[1])),
                      load |-> Some(r), opened |-> r.opened]
                ELSE [images |-> r.value[1], error |-> start.error,
                      load |-> Some(r), opened |-> r.opened]

\* The loading part of render (the two mode branches).
\* files: the contents of the uploaded streams, in order.
LoadStep(start, m, files, p, isdir, entries) ==
  IF m = UploadMode
  THEN IF files = <<>>
       THEN [images |-> start.images, error |-> start.error,
             load |-> None, opened |-> <<>>]
       ELSE LET srcs == [i \in 1..Len(files) |-> UploadName(i)]
                r == OpenAll(srcs, files)
            IN  IF r.raised # None
                THEN [images |-> start.images,
                      error |-> Some(StrOf(r.raised[1])),
                      load |-> None, opened |-> r.opened]
                ELSE [images |-> r.value[1], error |-> start.error,
                      load |-> None, opened |-> r.opened]
  ELSE IF p = <<>>
       THEN [images |-> start.images, error |-> start.error,
             load |-> None, opened |-> <<>>]
       ELSE LET r == load_images_from_dir(p, isdir, entries)
            IN  IF r.raised # None
                THEN [images |-> start.images,
                      error |-> Some(StrOf(r.raised[1])),
                      load |-> Some(r), opened |-> r.opened]
                ELSE [images |-> r.value[1], error |-> start.error,
                      load |-> Some(r), opened |-> r.opened]

\* "elif error:" is the truth value of an optional str
Truthy(err) == err # None /\ (err[1].text # "" \/ err[1].arg # <<>>)

\* The "if convert_clicked:" block.
ConvertStep(imgs, err, pname) ==
  IF imgs = <<>>
  THEN [shown |-> <<Widget("warning", NoImagesWarning, None, None)>>,
        pdf |-> None, safe |-> None]
  ELSE IF Truthy(err)
  THEN [shown |-> <<Widget("error", err[1], None, None)>>,
        pdf |-> None, safe |-> None]
  ELSE LET r == images_to_pdf(imgs)
       IN  IF r.raised # None
           THEN LET e == r.raised[1]
                IN  [shown |-> <<Widget("error",
                                        [text |-> "Error creating PDF: " \o e.text,
                                         arg |-> e.arg], None, None)>>,
                     pdf |-> Some(r), safe |-> None]
           ELSE LET safe == _sanitize_filename(pname)
                IN  [shown |-> <<Widget("success",
                                        Text("PDF generated successfully."),
                                        None, None),
                                 Widget("download_button", Text("Download PDF"),
                                        r.out, Some(safe))>>,
                     pdf |-> Some(r), safe |-> Some(safe)]

\* How a run ended, from the button that triggered it, the error the
\* loading part left, what was displayed and what images_to_pdf did.
Outcome(c, err, disp, pdf) ==
  IF c = "clear" THEN "rerun"
  ELSE IF c = "none" THEN "idle"
  ELSE IF \E i \in 1..Len(disp) : disp[i].kind = "download_button" THEN "download"
  ELSE IF err # None THEN "load_error"
  ELSE IF pdf # None THEN "build_error"
  ELSE "warning"

(***************************************************************************)
(* Inputs                                                                  *)
(***************************************************************************)
Injective(s) == \A i, j \in 1..Len(s) : s[i] = s[j] => i = j

\* The listings of at most n distinct names of S, in every order.
Listings(S, n) == {s \in SeqsUpTo(S, n) : Injective(s)}

PicsDir      == <<"/","p">>
PicsDirSlash == <<"/","p","/">>

LoaderPaths == {PicsDir, PicsDirSlash}

\* The image lists images_to_pdf is called with on its own.
ImageKinds == [mode : Modes, loadable : BOOLEAN]

ImageInputs ==
  { [i \in 1..Len(ks) |-> Img(<<"i", Digits[i + 1]>>, ks[i].mode,
                              ks[i].loadable, FALSE)]
    : ks \in SeqsUpTo(ImageKinds, MaxImages) }

ShellFileNames == { <<"b",".","p","n","g">>, <<"B",".","P","N","G">>,
                    <<"c",".","t","x","t">>, <<"e",".","j","p","e","g">> }

ShellNames == {<<>>, MyReport}

Clicks == {"none", "convert", "clear"}

\* What the widgets hold in one run: only the widgets of the chosen mode exist.
ShellInputs ==
  { [mode |-> UploadMode, files |-> fs, path |-> <<>>, isdir |-> FALSE,
     entries |-> <<>>] : fs \in SeqsUpTo(Contents, MaxUploads) }
  \cup
  { [mode |-> DirMode, files |-> <<>>, path |-> PicsDir, isdir |-> TRUE,
     entries |-> es] : es \in Listings(ShellFileNames, MaxShellEntries) }
  \cup
  { [mode |-> DirMode, files |-> <<>>, path |-> p, isdir |-> FALSE,
     entries |-> <<>>] : p \in {<<>>, PicsDir} }

(***************************************************************************)
(* Specifications                                                          *)
(***************************************************************************)
IdleSan == name = <<>> /\ safe_name = None
IdlePdf == arg_images = <<>> /\ enc_call = None /\ pdf_result = None
IdleDir == /\ dir_path = <<>> /\ exists = FALSE /\ listing = <<>>
           /\ load_result = None /\ opened = <<>>
IdleShell == /\ mode = UploadMode /\ uploaded_files = <<>>
             /\ pdf_name = Combined /\ click = "none"
             /\ images = <<>> /\ error = None /\ shown = <<>>
             /\ rerun = FALSE /\ prev_outcome = "start"

\* ---- _sanitize_filename on its own
InitSanitize ==
  /\ name \in NameInputs /\ safe_name = None
  /\ IdlePdf /\ IdleDir /\ IdleShell

CallSanitize ==
  /\ safe_name = None
  /\ safe_name' = Some(_sanitize_filename(name))
  /\ UNCHANGED <<name, pdfVars, dirVars, shellVars>>

SpecSanitize == InitSanitize /\ [][CallSanitize]_vars

\* ---- images_to_pdf on its own
InitPdf ==
  /\ arg_images \in ImageInputs /\ enc_call = None /\ pdf_result = None
  /\ IdleSan /\ IdleDir /\ IdleShell

CallImagesToPdf ==
  /\ pdf_result = None
  /\ LET r == images_to_pdf(arg_images)
     IN  /\ pdf_result' = Some([raised |-> r.raised, out |-> r.out])
         /\ enc_call' = r.enc
  /\ UNCHANGED <<arg_images, sanVars, dirVars, shellVars>>

SpecPdf == InitPdf /\ [][CallImagesToPdf]_vars

\* ---- load_images_from_dir on its own
InitLoad ==
  /\ dir_path \in LoaderPaths
  /\ exists \in BOOLEAN
  /\ listing \in Listings(FileNames, MaxEntries)
  /\ ~exists => listing = <<>>
  /\ load_result = None /\ opened = <<>>
  /\ IdleSan /\ IdlePdf /\ IdleShell

CallLoad ==
  /\ load_result = None
  /\ LET r == load_images_from_dir(dir_path, exists, listing)
     IN  /\ load_result' = Some([raised |-> r.raised, value |-> r.value])
         /\ opened' = r.opened
  /\ UNCHANGED <<dir_path, exists, listing, sanVars, pdfVars, shellVars>>

SpecLoad == InitLoad /\ [][CallLoad]_vars

\* ---- the render script, run after run
Init == IdleSan /\ IdlePdf /\ IdleDir /\ IdleShell

SameInputs(in) ==
  /\ in.mode = mode /\ in.files = uploaded_files /\ in.path = dir_path
  /\ in.isdir = exists /\ in.entries = listing

Render(in, pname, c) ==
  /\ rerun => c = "none" /\ SameInputs(in) /\ pname = pdf_name
  /\ \E ld \in {LoadStep(RunStart(images, error), in.mode, in.files,
                          in.path, in.isdir, in.entries)} :
     \E cv \in {IF c = "convert" THEN ConvertStep(ld.images, ld.error, pname)
                ELSE [shown |-> <<>>, pdf |-> None, safe |-> None]} :
         /\ mode' = in.mode /\ uploaded_files' = in.files
         /\ dir_path' = in.path /\ exists' = in.isdir /\ listing' = in.entries
         /\ pdf_name' = pname /\ click' = c
         /\ images' = ld.images /\ error' = ld.error
         /\ load_result' = IF ld.load = None THEN None
                           ELSE Some([raised |-> ld.load[1].raised,
                                      value |-> ld.load[1].value])
         /\ opened' = ld.opened
         /\ shown' = cv.shown
         /\ arg_images' = IF cv.pdf = None THEN <<>> ELSE ld.images
         /\ enc_call' = IF cv.pdf = None THEN None ELSE cv.pdf[1].enc
         /\ pdf_result' = IF cv.pdf = None THEN None
                          ELSE Some([raised |-> cv.pdf[1].raised,
                                     out |-> cv.pdf[1].out])
         /\ name' = IF cv.safe = None THEN <<>> ELSE pname
         /\ safe_name' = cv.safe
         /\ rerun' = (c = "clear")
         /\ prev_outcome' = Outcome(click, error, shown, pdf_result)

Next == \E in \in ShellInputs, pname \in ShellNames, c \in Clicks :
          Render(in, pname, c)

Spec == Init /\ [][Next]_vars

(***************************************************************************)
(* Properties of _sanitize_filename (under SpecSanitize)                   *)
(***************************************************************************)
AsciiSafe == Range(LowerCase) \cup Range(UpperCase) \cup Range(Digits)
             \cup {"_", ".", "-"}

Stem(s) == SubSeq(s, 1, Len(s) - Len(DotPdf))

\* C3: the result of _sanitize_filename is never empty and, apart from the
\* appended .pdf, consists only of characters in [A-Za-z0-9_.-], for every
\* input string, strings with non-ASCII characters included.
SanitizedIsAsciiSafe ==
  safe_name # None =>
    /\ EndsWith(safe_name[1], DotPdf)
    /\ Stem(safe_name[1]) # <<>>
    /\ \A i \in 1..Len(Stem(safe_name[1])) : Stem(safe_name[1])[i] \in AsciiSafe

\* Alphanumeric characters (str.isalnum).
Alnum(c) == c \in Range(LowerCase) \cup Range(UpperCase) \cup Range(Digits)
                  \cup UnicodeAlnum

UnsafeChar(c) == ~(Alnum(c) \/ c \in {"_", "-", ".", " "})

CombinedPdf == <<"c","o","m","b","i","n","e","d",".","p","d","f">>

\* C8: the empty string, a whitespace-only string and a string made only of
\* unsafe characters all sanitize to exactly "combined.pdf".
DegenerateNamesGiveCombined ==
  (/\ safe_name # None
   /\ \/ name = <<>>
      \/ \A i \in 1..Len(name) : IsSpace(name[i])
      \/ \A i \in 1..Len(name) : UnsafeChar(name[i]))
  => safe_name[1] = CombinedPdf

UnsafeOnlySanitized ==
  /\ safe_name # None
  /\ name = <<"!", "!">>
  /\ safe_name[1] = CombinedPdf

\* The pipeline in the order the specification gives it: trim; if empty use
\* "combined"; remove the unsafe characters; spaces to underscores; if empty
\* use "combined"; append ".pdf".
SpecifiedPipeline(s) ==
  LET t  == Strip(s)
      d  == IF t = <<>> THEN Combined ELSE t
      r  == SelectSeq(d, LAMBDA c : ~UnsafeChar(c))
      u  == [i \in 1..Len(r) |-> IF r[i] = " " THEN "_" ELSE r[i]]
      f  == IF u = <<>> THEN Combined ELSE u
  IN  f \o DotPdf

My_ReportPdf == <<"M","y","_","R","e","p","o","r","t",".","p","d","f">>

\* C9: _sanitize_filename returns what the specified pipeline returns, for
\* every input; substituting the default before trimming changes no result,
\* and "My Report!!" gives "My_Report.pdf".
SanitizeMatchesPipeline ==
  safe_name # None =>
    /\ safe_name[1] = SpecifiedPipeline(name)
    /\ name = MyReport => safe_name[1] = My_ReportPdf

WhitespaceOnlySanitized ==
  /\ safe_name # None
  /\ name = <<" ", " ", " ">>
  /\ safe_name[1] = CombinedPdf

(***************************************************************************)
(* Properties of images_to_pdf (under SpecPdf)                             *)
(***************************************************************************)
\* Every image that needs conversion can be converted.
Convertible(imgs) ==
  \A i \in 1..Len(imgs) : imgs[i].mode # "RGB" => imgs[i].loadable

\* pages is the input, image for image: the image itself when it is RGB,
\* otherwise an RGB copy of it.
PagesMatch(pages, imgs) ==
  /\ Len(pages) = Len(imgs)
  /\ \A i \in 1..Len(imgs) :
       IF imgs[i].mode = "RGB"
       THEN pages[i] = imgs[i]
       ELSE /\ pages[i].src = imgs[i].src
            /\ pages[i].mode = "RGB"
            /\ pages[i].converted

\* C1: for a non-empty sequence of valid images of any mix of modes, the
\* encoder is handed exactly len(images) pages, the i-th being the
\* RGB-normalized images[i]; a returned buffer holds those pages and is
\* positioned at its start.
PagesInInputOrder ==
  (pdf_result # None /\ arg_images # <<>> /\ Convertible(arg_images)) =>
    /\ enc_call # None
    /\ PagesMatch(<<enc_call[1].first>> \o enc_call[1].append_images, arg_images)
    /\ pdf_result[1].raised = None =>
         /\ pdf_result[1].out # None
         /\ PagesMatch(pdf_result[1].out[1].pages, arg_images)
         /\ pdf_result[1].out[1].pos = 0

MixedModesEncoded ==
  /\ pdf_result # None
  /\ Len(arg_images) = 3
  /\ arg_images[1].mode = "L" /\ arg_images[2].mode = "RGB"
  /\ arg_images[3].mode = "P"
  /\ pdf_result[1].raised = None
  /\ Len(pdf_result[1].out[1].pages) = 3

\* C5: images_to_pdf of an empty sequence raises ValueError("No images
\* provided ...") before a buffer exists or the encoder is called, and
\* returns no document.
EmptyInputRaises ==
  (pdf_result # None /\ arg_images = <<>>) =>
    /\ pdf_result[1].raised # None
    /\ pdf_result[1].raised[1].type = "ValueError"
    /\ pdf_result[1].raised[1].text = "No images provided for PDF conversion."
    /\ pdf_result[1].out = None
    /\ enc_call = None

EmptyInputCalled ==
  /\ pdf_result # None
  /\ arg_images = <<>>
  /\ pdf_result[1].raised # None

(***************************************************************************)
(* Properties of load_images_from_dir (under SpecLoad)                     *)
(***************************************************************************)
\* The name ends, whatever its case, in .jpg, .jpeg or .png.
ImageName(f) ==
  LET l == [i \in 1..Len(f) |-> LowerChar(f[i])]
      n == Len(l)
  IN  \/ n >= 4 /\ SubSeq(l, n - 3, n) \in {<<".","j","p","g">>, <<".","p","n","g">>}
      \/ n >= 5 /\ SubSeq(l, n - 4, n) = <<".","j","p","e","g">>

\* The full paths of the image entries of the directory, as a set.
ImagePaths(p, entries) ==
  {(IF p[Len(p)] = "/" THEN p ELSE p \o <<"/">>) \o f :
     f \in {g \in Range(entries) : ImageName(g)}}

Returned == load_result # None /\ load_result[1].raised = None

\* C2: what load_images_from_dir returns holds exactly one image per entry
\* whose name ends, case-insensitively, in .jpg, .jpeg or .png, none for any
\* other entry, in ascending order of the full paths, whatever order the
\* filesystem lists the entries in; b.png, a.jpg, c.txt gives a.jpg, b.png.
LoadedSortedAndFiltered ==
  Returned =>
    LET v == load_result[1].value[1]
    IN  /\ {v[i].src : i \in 1..Len(v)} = ImagePaths(dir_path, listing)
        /\ Len(v) = Cardinality(ImagePaths(dir_path, listing))
        /\ \A i, j \in 1..Len(v) : i < j => StrLess(v[i].src, v[j].src)
        /\ (dir_path = PicsDir
            /\ Range(listing) = {<<"b",".","p","n","g">>, <<"a",".","j","p","g">>,
                                 <<"c",".","t","x","t">>})
           => /\ Len(v) = 2
              /\ v[1].src = <<"/","p","/","a",".","j","p","g">>
              /\ v[2].src = <<"/","p","/","b",".","p","n","g">>

UnsortedListingLoaded ==
  /\ Returned
  /\ dir_path = PicsDir
  /\ listing = <<<<"b",".","p","n","g">>, <<"a",".","j","p","g">>,
                 <<"c",".","t","x","t">>>>
  /\ Len(load_result[1].value[1]) = 2

\* C6: a path that is no directory, and a directory without an image entry,
\* raise ValueError with a message holding the path, open no file and return
\* no list; in every other case a returned list is non-empty.
LoadErrorsNameThePath ==
  load_result # None =>
    IF ~exists \/ ImagePaths(dir_path, listing) = {}
    THEN /\ load_result[1].raised # None
         /\ load_result[1].raised[1].type = "ValueError"
         /\ load_result[1].raised[1].arg = dir_path
         /\ load_result[1].value = None
         /\ opened = <<>>
    ELSE /\ load_result[1].raised # None =>
              load_result[1].raised[1].type # "ValueError"
         /\ load_result[1].value # None => load_result[1].value[1] # <<>>

NoImageEntriesRaised ==
  /\ load_result # None
  /\ exists
  /\ listing = <<<<"c",".","t","x","t">>, <<"j","p","g">>>>
  /\ load_result[1].raised # None
  /\ load_result[1].raised[1].text = "No supported images found in "

(***************************************************************************)
(* Properties of render (under Spec)                                       *)
(***************************************************************************)
Displayed(kinds) == \E i \in 1..Len(shown) : shown[i].kind \in kinds

\* C4: when the loading part failed and Convert is clicked, the message
\* displayed is the message of the error that was caught.
LoadErrorIsDisplayed ==
  (click = "convert" /\ error # None) =>
    \E i \in 1..Len(shown) :
      shown[i].kind \in {"warning", "error"} /\ shown[i].msg = error[1]

\* The inputs selected in this run: what each holds, in any order.
SelectedContents ==
  IF mode = UploadMode THEN uploaded_files
  ELSE IF ~exists \/ dir_path = <<>> THEN <<>>
  ELSE LET fs == SelectSeq(listing, ImageName)
       IN  [i \in 1..Len(fs) |-> (CHOOSE f \in FilePool : f.fname = fs[i]).content]

AllOpen == \A i \in 1..Len(SelectedContents) : SelectedContents[i] # "bad"

\* C7: a run with Convert clicked displays a download or a warning/error
\* message, never both and never neither; a download is displayed only if
\* there is at least one selected input and every one of them was opened, and
\* its document has one page per selected input.
DownloadXorMessage ==
  click = "convert" =>
    /\ Displayed({"download_button"}) # Displayed({"warning", "error"})
    /\ Displayed({"download_button"}) =>
         /\ SelectedContents # <<>>
         /\ AllOpen
         /\ images # <<>>
         /\ \A i \in 1..Len(shown) :
              shown[i].kind = "download_button" =>
                /\ shown[i].data # None
                /\ Len(shown[i].data[1].pages) = Len(SelectedContents)

OneBadUploadNoDownload ==
  /\ click = "convert"
  /\ mode = UploadMode
  /\ uploaded_files = <<"RGB", "bad">>
  /\ ~Displayed({"download_button"})
  /\ Displayed({"warning", "error"})

GoodInputs == SelectedContents # <<>> /\ AllOpen

\* C10 as stated: after any runs, a run with Convert clicked whose inputs all
\* open and are non-empty offers a download.
GoodInputsAlwaysDownload ==
  (click = "convert" /\ GoodInputs) => Displayed({"download_button"})

AllEncodable ==
  \A i \in 1..Len(SelectedContents) : SelectedContents[i] # "truncated"

\* C10 amended: after any runs, a run with Convert clicked whose inputs all
\* open, are non-empty and can all be encoded offers a download; and what a
\* run leaves and displays is what its own inputs give starting from no
\* images and no error.
NoStickyError ==
  /\ (click = "convert" /\ GoodInputs /\ AllEncodable)
       => Displayed({"download_button"})
  /\ LET ld == LoadStep([images |-> <<>>, error |-> None], mode, uploaded_files,
                        dir_path, exists, listing)
     IN  /\ images = ld.images
         /\ error = ld.error
         /\ shown = IF click = "convert"
                    THEN ConvertStep(ld.images, ld.error, pdf_name).shown
                    ELSE <<>>

DownloadAfterLoadError ==
  /\ prev_outcome = "load_error"
  /\ click = "convert"
  /\ GoodInputs
  /\ Displayed({"download_button"})

====
